---- MODULE Spec2Model ----
(***************************************************************************)
(* Model of hugginsio/modeline: the line tokenizer (findProgram,          *)
(* parseOptions, parseSecondForm, parseFirstForm, parseOption) and the     *)
(* window scanner Scanner.Scan.                                            *)
(*                                                                         *)
(* A line is a sequence of one-character strings.  A source is a sequence  *)
(* of lines.  Scanner.Scan is modelled one bufio.Scanner read at a time.   *)
(***************************************************************************)
EXTENDS Integers, Sequences, FiniteSets, TLC

\* ------------------------------------------------------------------------
\* Bounds of the model
\* ------------------------------------------------------------------------
MaxMaxLines == 3

MaxSrcLen == 6

\* ------------------------------------------------------------------------
\* Tokenizer
\* ------------------------------------------------------------------------
Lower == {"a","b","c","d","e","f","g","h","i","j","k","l","m",
          "n","o","p","q","r","s","t","u","v","w","x","y","z"}

Upper == {"A","B","C","D","E","F","G","H","I","J","K","L","M",
          "N","O","P","Q","R","S","T","U","V","W","X","Y","Z"}

Digit == {"0","1","2","3","4","5","6","7","8","9"}

isWordChar(c) == c \in Lower \/ c \in Upper \/ c \in Digit \/ c = "_"

IsBlank(c) == c = " " \/ c = "\t"

\* line[from:] with a 1-based first index
SliceFrom(line, from) == SubSeq(line, from, Len(line))

RECURSIVE SkipBlank(_, _)
SkipBlank(line, j) ==
    IF j <= Len(line) /\ IsBlank(line[j]) THEN SkipBlank(line, j + 1) ELSE j

RECURSIVE SkipWord(_, _)
SkipWord(line, j) ==
    IF j <= Len(line) /\ isWordChar(line[j]) THEN SkipWord(line, j + 1) ELSE j

ErrNoModeline == "ErrNoModeline"

ErrMalformed == "malformed modeline"

\* an empty identifier accepted before the colon
RECURSIVE findProgramFromAllowEmpty(_, _)
findProgramFromAllowEmpty(line, i) ==
    IF i > Len(line)
    THEN [err |-> ErrNoModeline, program |-> <<>>, rest |-> <<>>]
    ELSE IF IsBlank(line[i])
         THEN LET start == SkipBlank(line, i + 1)
                  j     == SkipWord(line, start)
              IN  IF start <= Len(line) /\ j <= Len(line) /\ line[j] = ":"
                  THEN [err |-> "none",
                        program |-> SubSeq(line, start, j - 1),
                        rest |-> SliceFrom(line, j + 1)]
                  ELSE findProgramFromAllowEmpty(line, i + 1)
         ELSE findProgramFromAllowEmpty(line, i + 1)

\* the last match of the line taken instead of the first
RECURSIVE findProgramFromLast(_, _)
findProgramFromLast(line, i) ==
    IF i > Len(line)
    THEN [err |-> ErrNoModeline, program |-> <<>>, rest |-> <<>>]
    ELSE LET later == findProgramFromLast(line, i + 1)
         IN  IF later.err = "none" THEN later
             ELSE IF IsBlank(line[i])
                  THEN LET start == SkipBlank(line, i + 1)
                           j     == SkipWord(line, start)
                       IN  IF start <= Len(line) /\ j <= Len(line)
                              /\ line[j] = ":" /\ j > start
                           THEN [err |-> "none",
                                 program |-> SubSeq(line, start, j - 1),
                                 rest |-> SliceFrom(line, j + 1)]
                           ELSE later
                  ELSE later

RECURSIVE findProgramFrom(_, _)
findProgramFrom(line, i) ==
    IF i > Len(line)
    THEN [err |-> ErrNoModeline, program |-> <<>>, rest |-> <<>>]
    ELSE IF IsBlank(line[i])
         THEN LET start == SkipBlank(line, i + 1)
                  j     == SkipWord(line, start)
              IN  IF start <= Len(line) /\ j <= Len(line) /\ line[j] = ":" /\ j > start
                  THEN [err |-> "none",
                        program |-> SubSeq(line, start, j - 1),
                        rest |-> SliceFrom(line, j + 1)]
                  ELSE findProgramFrom(line, i + 1)
         ELSE findProgramFrom(line, i + 1)

findProgram(line) == findProgramFrom(line, 1)

RECURSIVE TrimLeft(_)
TrimLeft(t) ==
    IF Len(t) > 0 /\ IsBlank(t[1]) THEN TrimLeft(SliceFrom(t, 2)) ELSE t

RECURSIVE TrimRight(_)
TrimRight(t) ==
    IF Len(t) > 0 /\ IsBlank(t[Len(t)]) THEN TrimRight(SubSeq(t, 1, Len(t) - 1)) ELSE t

HasPrefix(t, p) == Len(t) >= Len(p) /\ SubSeq(t, 1, Len(p)) = p

HasSuffix(t, p) == Len(t) >= Len(p) /\ SubSeq(t, Len(t) - Len(p) + 1, Len(t)) = p

\* 1-based index of the first occurrence of character c in t at or after
\* position k, or 0 when there is none
RECURSIVE IndexFrom(_, _, _)
IndexFrom(t, c, k) ==
    IF k > Len(t) THEN 0
    ELSE IF t[k] = c THEN k ELSE IndexFrom(t, c, k + 1)

Index(t, c) == IndexFrom(t, c, 1)

IsSep(c) == c = " " \/ c = "\t" \/ c = ":"

\* strings.FieldsFunc: maximal runs of non-separator characters, in order
RECURSIVE FieldsFrom(_, _, _)
FieldsFrom(t, k, cur) ==
    IF k > Len(t)
    THEN IF cur = <<>> THEN <<>> ELSE <<cur>>
    ELSE IF IsSep(t[k])
         THEN (IF cur = <<>> THEN <<>> ELSE <<cur>>) \o FieldsFrom(t, k + 1, <<>>)
         ELSE FieldsFrom(t, k + 1, Append(cur, t[k]))

FieldsFunc(t) == FieldsFrom(t, 1, <<>>)

StrTrue == <<"t","r","u","e">>

StrFalse == <<"f","a","l","s","e">>

parseOption(token) ==
    LET eq == Index(token, "=")
    IN  IF eq > 0
        THEN [key |-> SubSeq(token, 1, eq - 1), value |-> SliceFrom(token, eq + 1)]
        ELSE IF HasPrefix(token, <<"n","o">>) /\ Len(token) > 2
             THEN [key |-> SliceFrom(token, 3), value |-> StrFalse]
             ELSE [key |-> token, value |-> StrTrue]

MapSet(m, k, v) == [x \in DOMAIN m \cup {k} |-> IF x = k THEN v ELSE m[x]]

EmptyMap == [x \in {} |-> <<>>]

\* the first token of a name kept instead of the last
RECURSIVE FoldOptionsFirstWins(_, _, _)
FoldOptionsFirstWins(tokens, k, options) ==
    IF k > Len(tokens) THEN options
    ELSE LET kv == parseOption(tokens[k])
         IN  FoldOptionsFirstWins(tokens, k + 1,
                         IF kv.key # <<>> /\ kv.key \notin DOMAIN options
                         THEN MapSet(options, kv.key, kv.value)
                         ELSE options)

RECURSIVE FoldOptions(_, _, _)
FoldOptions(tokens, k, options) ==
    IF k > Len(tokens) THEN options
    ELSE LET kv == parseOption(tokens[k])
         IN  FoldOptions(tokens, k + 1,
                         IF kv.key # <<>>
                         THEN MapSet(options, kv.key, kv.value)
                         ELSE options)

parseFirstForm(text) == FoldOptions(FieldsFunc(text), 1, EmptyMap)

\* the options not cut at the closing colon
parseSecondFormWholeRest(rest) ==
    [err |-> "none", options |-> parseFirstForm(rest)]

\* an unterminated second form decoded like a terminated one
parseSecondFormUnterminated(rest) ==
    LET colonIdx == Index(rest, ":")
    IN  IF colonIdx = 0
        THEN [err |-> "none", options |-> parseFirstForm(rest)]
        ELSE [err |-> "none", options |-> parseFirstForm(SubSeq(rest, 1, colonIdx - 1))]

parseSecondForm(rest) ==
    LET colonIdx == Index(rest, ":")
    IN  IF colonIdx = 0
        THEN [err |-> "none", options |-> EmptyMap]
        ELSE [err |-> "none", options |-> parseFirstForm(SubSeq(rest, 1, colonIdx - 1))]

\* the check for a dangling colon left out
parseOptionsNoMalformed(rest0) ==
    LET rest == TrimLeft(rest0)
    IN  IF HasPrefix(rest, <<"s","e","t"," ">>) THEN parseSecondForm(SliceFrom(rest, 5))
        ELSE IF HasPrefix(rest, <<"s","e"," ">>) THEN parseSecondForm(SliceFrom(rest, 4))
        ELSE [err |-> "none", options |-> parseFirstForm(rest)]

parseOptions(rest0) ==
    LET rest == TrimLeft(rest0)
    IN  IF HasPrefix(rest, <<"s","e","t"," ">>) THEN parseSecondForm(SliceFrom(rest, 5))
        ELSE IF HasPrefix(rest, <<"s","e"," ">>) THEN parseSecondForm(SliceFrom(rest, 4))
        ELSE IF HasSuffix(TrimRight(rest), <<":">>)
             THEN [err |-> ErrMalformed, options |-> EmptyMap]
             ELSE [err |-> "none", options |-> parseFirstForm(rest)]

NoModelineValue == [Program |-> <<>>, Options |-> EmptyMap, RawLine |-> <<>>]

\* RawLine stored without its leading blanks
ScanStringTrimmedRaw(line) ==
    LET fp == findProgram(line)
    IN  IF fp.err # "none"
        THEN [err |-> fp.err, m |-> NoModelineValue]
        ELSE LET po == parseOptions(fp.rest)
             IN  IF po.err # "none"
                 THEN [err |-> po.err, m |-> NoModelineValue]
                 ELSE [err |-> "none",
                       m |-> [Program |-> fp.program,
                              Options |-> po.options,
                              RawLine |-> TrimLeft(line)]]

ScanString(str) ==
    LET fp == findProgram(str)
    IN  IF fp.err # "none"
        THEN [err |-> fp.err, m |-> NoModelineValue]
        ELSE LET po == parseOptions(fp.rest)
             IN  IF po.err # "none"
                 THEN [err |-> po.err, m |-> NoModelineValue]
                 ELSE [err |-> "none",
                       m |-> [Program |-> fp.program,
                              Options |-> po.options,
                              RawLine |-> str]]

\* ------------------------------------------------------------------------
\* Window scanner: Scanner.Scan
\* ------------------------------------------------------------------------

\* Lines the sources of the model are made of: a first-form modeline, a
\* second-form modeline, a line without a modeline, a malformed modeline.
LineFirst == <<"#", " ", "v", ":", "a", "=", "1">>

LineSecond == <<" ", "w", ":", "s", "e", " ", "n", "o", "b", ":", "x">>

LinePlain == <<"x", "y">>

LineMalformed == <<" ", "v", ":", "a", ":">>

ScanLines == {LineFirst, LineSecond, LinePlain, LineMalformed}

Sources == UNION {[1..n -> ScanLines] : n \in 0..MaxSrcLen}

Scanners == [ScanTop : BOOLEAN, ScanBottom : BOOLEAN, MaxLines : 1..MaxMaxLines]

VARIABLES
    s,             \* the Scanner value: ScanTop, ScanBottom, MaxLines
    src,           \* the lines of the reader r
    pos,           \* lines delivered by scanner.Scan() so far
    atEOF,         \* scanner.Scan() has returned false at end of input
    scanErr,       \* scanner.Err(): "none" or "io"
    lineCount,     \* local lineCount
    bottomBuffer,  \* local bottomBuffer
    bottomPos,     \* source position of each bottomBuffer entry (history)
    modelines,     \* local modelines
    parsedPos,     \* source positions handed to ScanString, in order (history)
    i,             \* index of the bottom parsing loop (0-based)
    pc,            \* position in Scan
    ret            \* value returned by Scan: [mods, err]

\* A single call of the package function ScanString, of parseFirstForm, and
\* a second call of ScanString on the RawLine of the first result
VARIABLES
    str,           \* the string handed to ScanString and to parseFirstForm
    res,           \* result of ScanString(str); err = "pending" before the call
    opts,          \* result of parseFirstForm(str); done = FALSE before the call
    res2           \* result of ScanString(res.m.RawLine)

scanVars == <<s, src, pos, atEOF, scanErr, lineCount, bottomBuffer, bottomPos, modelines,
              parsedPos, i, pc, ret>>

tokVars == <<str, res, opts, res2>>

vars == <<scanVars, tokVars>>

\* the early return left out
EarlyReturnOmitted(sc) == FALSE

\* line 38
EarlyReturn(sc) == ~sc.ScanTop /\ ~sc.ScanBottom

\* line 46
TopOnly(sc) == sc.ScanTop /\ ~sc.ScanBottom

\* the top window one line short
InWindowShort(lc, sc) == lc + 1 < sc.MaxLines

\* the top window one line long
InWindowInclusive(lc, sc) == lc <= sc.MaxLines

\* the second conjunct of the loop conditions at lines 48 and 70
InWindow(lc, sc) == lc < sc.MaxLines

\* only the no-modeline error is skipped: a malformed line adds an entry
AppendParsedUnlessNoModeline(mods, line) ==
    LET r == ScanString(line)
    IN  IF r.err = ErrNoModeline THEN mods ELSE Append(mods, r.m)

\* lines 50-52, 72-74, 116-118: a failed ScanString is skipped
AppendParsed(mods, line) ==
    LET r == ScanString(line)
    IN  IF r.err = "none" THEN Append(mods, r.m) ELSE mods

\* the full buffer shifted without storing the new line
PushBottomNoStore(buf, line, maxLines) ==
    IF Len(buf) < maxLines
    THEN Append(buf, line)
    ELSE [k \in 1..Len(buf) |-> IF k < Len(buf) THEN buf[k + 1] ELSE buf[k]]

\* the new line stored in the full buffer without shifting
PushBottomNoShift(buf, line, maxLines) ==
    IF Len(buf) < maxLines
    THEN Append(buf, line)
    ELSE [buf EXCEPT ![maxLines] = line]

\* lines 86-92: append while below capacity, else shift left and overwrite
\* the last slot
PushBottom(buf, line, maxLines) ==
    IF Len(buf) < maxLines
    THEN Append(buf, line)
    ELSE LET shifted == [k \in 1..Len(buf) |->
                            IF k < Len(buf) THEN buf[k + 1] ELSE buf[k]]
         IN  [shifted EXCEPT ![maxLines] = line]

\* line 104
SkipBottom(sc, lc) == sc.ScanTop /\ lc <= sc.MaxLines

\* the overlap computed without asking whether the top window was scanned
StartIdxUnguarded(sc, lc) ==
    IF lc < 2 * sc.MaxLines
    THEN LET overlap == 2 * sc.MaxLines - lc
         IN  sc.MaxLines - overlap
    ELSE 0

\* lines 103-113
StartIdx(sc, lc) ==
    IF sc.ScanTop /\ lc < 2 * sc.MaxLines
    THEN LET overlap == 2 * sc.MaxLines - lc
         IN  sc.MaxLines - overlap
    ELSE 0

\* return modelines, nil
Returned(mods) == [mods |-> mods, err |-> "none"]

\* the results parsed so far returned along with the error
IoFailurePartial(mods) == [mods |-> mods, err |-> "io"]

\* return nil, err
IoFailure(mods) == [mods |-> <<>>, err |-> "io"]

\* lines 57-61 (also 78-80, 96-98): the scanner.Err() check after a loop
ErrCheck(mods, e) == IF e # "none" THEN IoFailure(mods) ELSE Returned(mods)

\* What one call of scanner.Scan() can do: deliver the next line ("line"),
\* deliver the next line while the read that fetched it failed, so that
\* scanner.Err() is non-nil from then on ("lineErr"), report the end of the
\* input ("eof"), or return false on a read error ("err").  After a failed
\* read the lines already buffered are still delivered.  Once the end of the
\* input has been reported every later call reports it again.
ReadOutcomes ==
    IF atEOF THEN {"eof"}
    ELSE IF scanErr # "none"
         THEN (IF pos < Len(src) THEN {"line", "err"} ELSE {"err"})
         ELSE IF pos < Len(src) THEN {"line", "lineErr", "err"} ELSE {"eof", "err"}

\* scanner.Err() after a call of scanner.Scan() with the given outcome
ErrAfter(o) == IF o \in {"lineErr", "err"} THEN "io" ELSE scanErr

\* no call of ScanString has been made
NotCalled == [err |-> "pending", m |-> NoModelineValue]

\* no call of parseFirstForm has been made
NoOptionsYet == [done |-> FALSE, options |-> EmptyMap]

Init ==
    /\ s \in Scanners
    /\ src \in Sources
    /\ pos = 0
    /\ atEOF = FALSE
    /\ scanErr = "none"
    /\ lineCount = 0
    /\ bottomBuffer = <<>>
    /\ bottomPos = <<>>
    /\ modelines = <<>>
    /\ parsedPos = <<>>
    /\ i = 0
    /\ pc = "start"
    /\ ret = Returned(<<>>)
    /\ str = <<>>
    /\ res = NotCalled
    /\ opts = NoOptionsYet
    /\ res2 = NotCalled

\* lines 36-46 and 65-69: entry of Scan up to the first loop
Start ==
    /\ pc = "start"
    /\ IF EarlyReturn(s)
       THEN pc' = "done" /\ ret' = Returned(<<>>)
       ELSE /\ pc' = IF TopOnly(s) THEN "topOnly"
                     ELSE IF s.ScanTop THEN "top" ELSE "fill"
            /\ ret' = ret
    /\ UNCHANGED <<s, src, pos, atEOF, scanErr, lineCount, bottomBuffer, bottomPos,
                   modelines, parsedPos, i>>
    /\ UNCHANGED tokVars

\* lines 48-61: one evaluation of the top-only loop condition, with the loop
\* body or the return that follows it
TopOnlyRead ==
    /\ pc = "topOnly"
    /\ \E o \in ReadOutcomes :
         /\ scanErr' = ErrAfter(o)
         /\ \/ /\ o \in {"line", "lineErr"}
               /\ pos' = pos + 1
               /\ IF InWindow(lineCount, s)
                  THEN /\ modelines' = AppendParsed(modelines, src[pos + 1])
                       /\ parsedPos' = Append(parsedPos, pos + 1)
                       /\ lineCount' = lineCount + 1
                       /\ UNCHANGED <<pc, ret>>
                  ELSE /\ pc' = "done"
                       /\ ret' = ErrCheck(modelines, ErrAfter(o))
                       /\ UNCHANGED <<modelines, parsedPos, lineCount>>
               /\ UNCHANGED atEOF
            \/ /\ o = "eof"
               /\ atEOF' = TRUE
               /\ pc' = "done"
               /\ ret' = ErrCheck(modelines, ErrAfter(o))
               /\ UNCHANGED <<pos, modelines, parsedPos, lineCount>>
            \/ /\ o = "err"
               /\ pc' = "done"
               /\ ret' = ErrCheck(modelines, ErrAfter(o))
               /\ UNCHANGED <<pos, atEOF, modelines, parsedPos, lineCount>>
    /\ UNCHANGED <<s, src, bottomBuffer, bottomPos, i>>
    /\ UNCHANGED tokVars

\* lines 70-80: one evaluation of the top loop condition of the buffered
\* path, with the loop body or the scanner.Err() check that follows the loop
TopRead ==
    /\ pc = "top"
    /\ \E o \in ReadOutcomes :
         /\ scanErr' = ErrAfter(o)
         /\ \/ /\ o \in {"line", "lineErr"}
               /\ pos' = pos + 1
               /\ IF InWindow(lineCount, s)
                  THEN /\ modelines' = AppendParsed(modelines, src[pos + 1])
                       /\ parsedPos' = Append(parsedPos, pos + 1)
                       /\ lineCount' = lineCount + 1
                       /\ UNCHANGED <<pc, ret>>
                  ELSE /\ IF ErrAfter(o) # "none"
                          THEN pc' = "done" /\ ret' = IoFailure(modelines)
                          ELSE pc' = "fill" /\ ret' = ret
                       /\ UNCHANGED <<modelines, parsedPos, lineCount>>
               /\ UNCHANGED atEOF
            \/ /\ o = "eof"
               /\ atEOF' = TRUE
               /\ pc' = "fill"
               /\ UNCHANGED <<pos, modelines, parsedPos, lineCount, ret>>
            \/ /\ o = "err"
               /\ pc' = "done"
               /\ ret' = IoFailure(modelines)
               /\ UNCHANGED <<pos, atEOF, modelines, parsedPos, lineCount>>
    /\ UNCHANGED <<s, src, bottomBuffer, bottomPos, i>>
    /\ UNCHANGED tokVars

\* lines 84-98: one evaluation of the buffer loop condition, with the loop
\* body or the scanner.Err() check that follows the loop
FillRead ==
    /\ pc = "fill"
    /\ \E o \in ReadOutcomes :
         /\ scanErr' = ErrAfter(o)
         /\ \/ /\ o \in {"line", "lineErr"}
               /\ pos' = pos + 1
               /\ bottomBuffer' = PushBottom(bottomBuffer, src[pos + 1], s.MaxLines)
               /\ bottomPos' = PushBottom(bottomPos, pos + 1, s.MaxLines)
               /\ lineCount' = lineCount + 1
               /\ UNCHANGED <<atEOF, pc, ret>>
            \/ /\ o = "eof"
               /\ atEOF' = TRUE
               /\ pc' = "reconcile"
               /\ UNCHANGED <<pos, bottomBuffer, bottomPos, lineCount, ret>>
            \/ /\ o = "err"
               /\ pc' = "done"
               /\ ret' = IoFailure(modelines)
               /\ UNCHANGED <<pos, atEOF, bottomBuffer, bottomPos, lineCount>>
    /\ UNCHANGED <<s, src, modelines, parsedPos, i>>
    /\ UNCHANGED tokVars

\* lines 101-113: choice of the first buffer entry to parse
Reconcile ==
    /\ pc = "reconcile"
    /\ IF ~s.ScanBottom
       THEN pc' = "done" /\ ret' = Returned(modelines) /\ i' = i
       ELSE IF SkipBottom(s, lineCount)
            THEN pc' = "done" /\ ret' = Returned(modelines) /\ i' = i
            ELSE pc' = "parse" /\ i' = StartIdx(s, lineCount) /\ ret' = ret
    /\ UNCHANGED <<s, src, pos, atEOF, scanErr, lineCount, bottomBuffer, bottomPos,
                   modelines, parsedPos>>
    /\ UNCHANGED tokVars

\* lines 115-122: one evaluation of the bottom parsing loop condition
ParseBottom ==
    /\ pc = "parse"
    /\ IF i < Len(bottomBuffer)
       THEN /\ modelines' = AppendParsed(modelines, bottomBuffer[i + 1])
            /\ parsedPos' = Append(parsedPos, bottomPos[i + 1])
            /\ i' = i + 1
            /\ UNCHANGED <<pc, ret>>
       ELSE /\ pc' = "done"
            /\ ret' = Returned(modelines)
            /\ UNCHANGED <<modelines, parsedPos, i>>
    /\ UNCHANGED <<s, src, pos, atEOF, scanErr, lineCount, bottomBuffer, bottomPos>>
    /\ UNCHANGED tokVars

Next == Start \/ TopOnlyRead \/ TopRead \/ FillRead \/ Reconcile \/ ParseBottom

Spec == Init /\ [][Next]_vars

\* ------------------------------------------------------------------------
\* Single-line calls: ScanString and parseFirstForm on bounded inputs
\* ------------------------------------------------------------------------
MaxFindLen == 5

MaxBodyPieces == 4

\* characters of the lines used to exercise findProgram: blanks, a word
\* character, the colon and a character that is none of these
FindChars == {" ", "\t", "a", ":", "#"}

FindLines == UNION {[1..n -> FindChars] : n \in 0..MaxFindLen}

\* pieces the option-bearing part of a line is made of
Pieces == {<<" ">>, <<"\t">>, <<":">>, <<"=">>, <<"a">>, <<"n", "o">>,
           <<"s", "e", " ">>, <<"s", "e", "t", " ">>}

RECURSIVE Flatten(_)
Flatten(ps) == IF ps = <<>> THEN <<>> ELSE Head(ps) \o Flatten(Tail(ps))

Bodies == {Flatten(ps) : ps \in UNION {[1..n -> Pieces] : n \in 0..MaxBodyPieces}}

\* what precedes the option-bearing part: nothing, or text ending in a
\* program match
Heads == {<<>>, <<" ", "a", ":">>, <<"#", " ", "a", "_", "1", ":", " ">>}

TokLines == FindLines \cup {h \o b : h \in Heads, b \in Bodies}

defaultScanner == [ScanTop |-> TRUE, ScanBottom |-> TRUE, MaxLines |-> 5]

InitTok ==
    /\ s = defaultScanner
    /\ src = <<>>
    /\ pos = 0
    /\ atEOF = FALSE
    /\ scanErr = "none"
    /\ lineCount = 0
    /\ bottomBuffer = <<>>
    /\ bottomPos = <<>>
    /\ modelines = <<>>
    /\ parsedPos = <<>>
    /\ i = 0
    /\ pc = "start"
    /\ ret = Returned(<<>>)
    /\ str \in TokLines
    /\ res = NotCalled
    /\ opts = NoOptionsYet
    /\ res2 = NotCalled

\* ScanString(str)
TokScanString ==
    /\ res.err = "pending"
    /\ res' = ScanString(str)
    /\ UNCHANGED <<str, opts, res2>>
    /\ UNCHANGED scanVars

\* parseFirstForm(str)
TokParseFirstForm ==
    /\ ~opts.done
    /\ opts' = [done |-> TRUE, options |-> parseFirstForm(str)]
    /\ UNCHANGED <<str, res, res2>>
    /\ UNCHANGED scanVars

\* ScanString of the RawLine of a successful result
TokReparse ==
    /\ res.err = "none"
    /\ res2.err = "pending"
    /\ res2' = ScanString(res.m.RawLine)
    /\ UNCHANGED <<str, res, opts>>
    /\ UNCHANGED scanVars

NextTok == TokScanString \/ TokParseFirstForm \/ TokReparse

SpecTok == InitTok /\ [][NextTok]_vars

\* ------------------------------------------------------------------------
\* Properties of Scanner.Scan
\* ------------------------------------------------------------------------
NumLines == Len(src)

Min(a, b) == IF a < b THEN a ELSE b

Both == s.ScanTop /\ s.ScanBottom

BottomOnly == ~s.ScanTop /\ s.ScanBottom

TopOnlyScan == s.ScanTop /\ ~s.ScanBottom

\* Scan has returned without error
ReturnedOk == pc = "done" /\ ret.err = "none"

IsModeline(line) == ScanString(line).err = "none"

\* the successful parses of a sequence of lines, in order
RECURSIVE OkParses(_)
OkParses(lines) ==
    IF lines = <<>> THEN <<>>
    ELSE LET r == ScanString(Head(lines))
         IN  (IF r.err = "none" THEN <<r.m>> ELSE <<>>) \o OkParses(Tail(lines))

\* the positions a..b in increasing order
Range(a, b) == [k \in 1..(b - a + 1) |-> a + k - 1]

\* the lines that were handed to ScanString, in the order they were handed
ParsedLines == [k \in 1..Len(parsedPos) |-> src[parsedPos[k]]]

\* C1: no source line (identified by its position in the source) is handed
\* to the tokenizer more than once during a Scan, whatever the windows.
C1_NoLineParsedTwice ==
    \A a, b \in 1..Len(parsedPos) : a # b => parsedPos[a] # parsedPos[b]

\* a finished scan of both windows in which the bottom buffer overflowed and
\* was parsed after the top window
C1_Witness ==
    /\ ReturnedOk /\ Both
    /\ pos > 2 * s.MaxLines + 1
    /\ Len(parsedPos) = 2 * s.MaxLines
    /\ s.MaxLines >= 2

\* C2: with both windows and N >= 2*MaxLines lines, Scan returns the
\* successful parses of the first MaxLines lines followed by those of the
\* last MaxLines lines.
C2_BothWindowsDisjoint ==
    (ReturnedOk /\ Both /\ NumLines >= 2 * s.MaxLines) =>
        ret.mods = OkParses(SubSeq(src, 1, s.MaxLines)
                            \o SubSeq(src, NumLines - s.MaxLines + 1, NumLines))

\* C3: with both windows and MaxLines < N < 2*MaxLines, every source line is
\* parsed exactly once and the result is the successful parses of all lines.
C3_OverlapParsesAll ==
    (ReturnedOk /\ Both /\ s.MaxLines < NumLines /\ NumLines < 2 * s.MaxLines) =>
        /\ parsedPos = Range(1, NumLines)
        /\ ret.mods = OkParses(src)

\* C4: with both windows and N <= MaxLines the bottom window adds nothing:
\* the lines parsed are lines 1..N, each once, and the result is the
\* successful parses of all N lines, which is the top-only result.
C4_ShortFileTopCoversAll ==
    (ReturnedOk /\ Both /\ NumLines <= s.MaxLines) =>
        /\ parsedPos = Range(1, NumLines)
        /\ ret.mods = OkParses(src)
        /\ bottomBuffer = <<>>

\* a finished scan of both windows over a short file ending in a modeline
C4_Witness ==
    /\ ReturnedOk /\ Both
    /\ NumLines >= 2 /\ NumLines <= s.MaxLines
    /\ IsModeline(src[NumLines])
    /\ ~IsModeline(src[1])
    /\ Len(ret.mods) >= 1

\* C5: with only the bottom window, Scan returns the successful parses of
\* the last min(MaxLines, N) lines, oldest first, and nothing else.
C5_BottomOnlyLastLines ==
    (ReturnedOk /\ BottomOnly) =>
        LET n == Min(s.MaxLines, NumLines)
        IN  /\ parsedPos = Range(NumLines - n + 1, NumLines)
            /\ ret.mods = OkParses(SubSeq(src, NumLines - n + 1, NumLines))

\* a finished bottom-only scan that returned a modeline of the window and
\* left out a modeline more than MaxLines lines before the end
C5_Witness ==
    /\ ReturnedOk /\ BottomOnly
    /\ NumLines > s.MaxLines + 1
    /\ IsModeline(src[1])
    /\ Len(ret.mods) >= 1
    /\ Len(ret.mods) < Len(OkParses(src))

\* C6: with only the top window, Scan returns the successful parses of the
\* first min(MaxLines, N) lines, in order, and nothing else.
C6_TopOnlyFirstLines ==
    (ReturnedOk /\ TopOnlyScan) =>
        LET n == Min(s.MaxLines, NumLines)
        IN  /\ parsedPos = Range(1, n)
            /\ ret.mods = OkParses(SubSeq(src, 1, n))

\* a finished top-only scan that returned a modeline of the window and left
\* out a modeline after line MaxLines
C6_Witness ==
    /\ ReturnedOk /\ TopOnlyScan
    /\ NumLines > s.MaxLines
    /\ IsModeline(src[NumLines])
    /\ Len(ret.mods) >= 1
    /\ Len(ret.mods) < Len(OkParses(src))

\* C7: once a read of the source has failed, Scan goes on to no bottom
\* parsing and, when it returns, returns the error and no results, whatever
\* had been parsed before.
C7_IoErrorNoResults ==
    scanErr = "io" =>
        /\ pc \in {"topOnly", "top", "fill", "done"}
        /\ pc = "done" => (ret.err = "io" /\ ret.mods = <<>>)

\* Scan has returned after a read failed while the bottom buffer was being
\* filled, the top window having produced a modeline
C7_Witness ==
    /\ pc = "done"
    /\ scanErr = "io"
    /\ Len(modelines) >= 1
    /\ Len(bottomBuffer) >= 1

\* C8: a line whose tokenization fails adds no result and does not end the
\* scan: at every point the results are exactly the successful parses of the
\* lines handed to the tokenizer so far, and a scan without read failure
\* returns them without error.
C8_FailedLinesSkipped ==
    /\ modelines = OkParses(ParsedLines)
    /\ (pc = "done" /\ scanErr = "none") => (ret.err = "none" /\ ret.mods = modelines)

\* a finished scan in which a line without modeline and a malformed modeline
\* were tokenized between two modelines that were both returned
C8_Witness ==
    /\ ReturnedOk
    /\ Len(parsedPos) >= 4
    /\ IsModeline(ParsedLines[1])
    /\ ScanString(ParsedLines[2]).err = ErrNoModeline
    /\ ScanString(ParsedLines[3]).err = ErrMalformed
    /\ IsModeline(ParsedLines[4])
    /\ Len(ret.mods) >= 2

\* C9: with neither window requested no line is ever read from the source
\* and Scan returns an empty result without error.
C9_NeitherReadsNothing ==
    (~s.ScanTop /\ ~s.ScanBottom) =>
        /\ pos = 0 /\ ~atEOF /\ scanErr = "none" /\ parsedPos = <<>>
        /\ pc = "done" => ret = [mods |-> <<>>, err |-> "none"]

\* Scan has returned with neither window requested over a source with lines
C9_Witness ==
    /\ ~s.ScanTop /\ ~s.ScanBottom
    /\ pc = "done"
    /\ NumLines >= 1
    /\ s.MaxLines >= 2

\* C10: with only the top window, the number of lines pulled from the
\* source never exceeds MaxLines.
C10_TopOnlyReadsAtMostMaxLines ==
    TopOnlyScan => pos <= s.MaxLines

\* C18: whenever the bottom window is requested, lineCount equals the number
\* of lines of the source at the moment the source is exhausted.
C18_LineCountIsSourceLength ==
    (s.ScanBottom /\ pc = "reconcile") => lineCount = NumLines

\* C19: whenever the bottom window is requested the buffer never holds more
\* than MaxLines entries, they are in source order, and when the source is
\* exhausted they are the last min(MaxLines, N - t) lines, t being the lines
\* taken by the top window.
C19_BufferHoldsLastLines ==
    s.ScanBottom =>
        /\ Len(bottomBuffer) <= s.MaxLines
        /\ \A a, b \in 1..Len(bottomPos) : a < b => bottomPos[a] < bottomPos[b]
        /\ pc = "reconcile" =>
              LET t == IF s.ScanTop THEN Min(s.MaxLines, NumLines) ELSE 0
                  k == Min(s.MaxLines, NumLines - t)
              IN  /\ bottomPos = Range(NumLines - k + 1, NumLines)
                  /\ bottomBuffer = SubSeq(src, NumLines - k + 1, NumLines)

\* C20: the bottom buffer is never indexed out of range: it never holds more
\* than MaxLines entries, so the overwrite of slot MaxLines-1 happens on a
\* full buffer, and the index of the bottom parsing loop, which starts at
\* startIdx, stays between 0 and the buffer length.
C20_BufferIndexesInRange ==
    /\ Len(bottomBuffer) <= s.MaxLines
    /\ Len(bottomPos) = Len(bottomBuffer)
    /\ pc = "parse" => (0 <= i /\ i <= Len(bottomBuffer))

\* the bottom parsing loop has been entered in the overlap branch with a
\* start index greater than 0
C20_Witness ==
    /\ pc = "parse" /\ Both
    /\ lineCount < 2 * s.MaxLines
    /\ i >= 1
    /\ Len(bottomBuffer) >= 1

\* ------------------------------------------------------------------------
\* Properties of the tokenizer
\* ------------------------------------------------------------------------
BlankChars == {" ", "\t"}

WordChars == Lower \cup Upper \cup Digit \cup {"_"}

\* the occurrences <<a, b, c>> of the pattern in a line: a non-empty run of
\* blanks line[a..b-1], a non-empty identifier line[b..c-1], a colon line[c]
Occurrences(line) ==
    LET colons == {c \in 1..Len(line) : line[c] = ":"}
        idents(c) == {b \in 1..(c - 1) : \A k \in b..(c - 1) : line[k] \in WordChars}
        blanks(b) == {a \in 1..(b - 1) : \A k \in a..(b - 1) : line[k] \in BlankChars}
    IN  UNION {UNION {{<<a, b, c>> : a \in blanks(b)} : b \in idents(c)} : c \in colons}

\* the occurrence that starts first
Leftmost(line) ==
    LET occ == Occurrences(line)
    IN  CHOOSE o \in occ : \A q \in occ : o[1] <= q[1]

\* the text after the colon of the leftmost occurrence, without leading blanks
Remainder(line) ==
    LET o == Leftmost(line) IN TrimLeft(SubSeq(line, o[3] + 1, Len(line)))

KeywordSet == <<"s", "e", "t", " ">>

KeywordSe == <<"s", "e", " ">>

IsSecondForm(line) ==
    LET rem == Remainder(line)
    IN  HasPrefix(rem, KeywordSet) \/ HasPrefix(rem, KeywordSe)

\* the text after the se[t] keyword of a second-form line
AfterKeyword(line) ==
    LET rem == Remainder(line)
    IN  IF HasPrefix(rem, KeywordSet)
        THEN SubSeq(rem, 5, Len(rem))
        ELSE SubSeq(rem, 4, Len(rem))

HasColon(t) == \E k \in 1..Len(t) : t[k] = ":"

FirstColon(t) == CHOOSE k \in 1..Len(t) : t[k] = ":" /\ \A q \in 1..(k - 1) : t[q] # ":"

SepChars == {" ", "\t", ":"}

\* the maximal runs t[a..b] of characters that are not separators
TokenSpans(t) ==
    {sp \in (1..Len(t)) \X (1..Len(t)) :
        /\ sp[1] <= sp[2]
        /\ \A k \in sp[1]..sp[2] : t[k] \notin SepChars
        /\ (sp[1] = 1 \/ t[sp[1] - 1] \in SepChars)
        /\ (sp[2] = Len(t) \/ t[sp[2] + 1] \in SepChars)}

HasEquals(tok) == \E k \in 1..Len(tok) : tok[k] = "="

FirstEquals(tok) ==
    CHOOSE k \in 1..Len(tok) : tok[k] = "=" /\ \A q \in 1..(k - 1) : tok[q] # "="

IsNegation(tok) == Len(tok) > 2 /\ tok[1] = "n" /\ tok[2] = "o"

DecodedName(tok) ==
    IF HasEquals(tok) THEN SubSeq(tok, 1, FirstEquals(tok) - 1)
    ELSE IF IsNegation(tok) THEN SubSeq(tok, 3, Len(tok))
    ELSE tok

DecodedValue(tok) ==
    IF HasEquals(tok) THEN SubSeq(tok, FirstEquals(tok) + 1, Len(tok))
    ELSE IF IsNegation(tok) THEN <<"f", "a", "l", "s", "e">>
    ELSE <<"t", "r", "u", "e">>

\* the mapping decoded from the tokens at the given spans: the rightmost
\* token of a name gives its value
DecodedFrom(t, spans) ==
    LET tokenAt(sp) == SubSeq(t, sp[1], sp[2])
        names == {DecodedName(tokenAt(sp)) : sp \in spans}
        last(n) == CHOOSE sp \in spans :
                      /\ DecodedName(tokenAt(sp)) = n
                      /\ \A q \in spans : DecodedName(tokenAt(q)) = n => q[1] <= sp[1]
    IN  [n \in names |-> DecodedValue(tokenAt(last(n)))]

\* every token contributes an entry
DecodedAll(t) == DecodedFrom(t, TokenSpans(t))

\* every token with a non-empty decoded name contributes an entry
DecodedNamed(t) ==
    DecodedFrom(t, {sp \in TokenSpans(t) : DecodedName(SubSeq(t, sp[1], sp[2])) # <<>>})

\* C11: ScanString fails with ErrNoModeline exactly when the line has no
\* occurrence of blanks, identifier, colon.
C11_NoModelineIffNoOccurrence ==
    res.err # "pending" => (res.err = ErrNoModeline <=> Occurrences(str) = {})

\* ScanString has failed with ErrNoModeline on a line that starts with an
\* identifier and a colon without leading blank
C11_Witness ==
    /\ res.err = ErrNoModeline
    /\ Len(str) >= 3
    /\ str[1] = "a" /\ str[2] = ":"

\* C12: on a line with a program match that is not in second form, a
\* remainder ending in a colon (trailing blanks aside) makes ScanString fail
\* with the malformed error, which is not ErrNoModeline; a second-form
\* remainder never gives the malformed error.
C12_DanglingColonMalformed ==
    (res.err # "pending" /\ Occurrences(str) # {}) =>
        LET second == IsSecondForm(str)
        IN  /\ (~second /\ HasSuffix(TrimRight(Remainder(str)), <<":">>))
                  => (res.err = ErrMalformed /\ res.err # ErrNoModeline)
            /\ second => res.err # ErrMalformed

\* ScanString has failed as malformed on a line whose colon is followed by
\* trailing blanks
C12_Witness ==
    /\ res.err = ErrMalformed
    /\ str[Len(str)] \in BlankChars
    /\ Len(Remainder(str)) >= 3

\* C13 as stated: the mapping of an option region has an entry for every
\* non-empty token.
C13_EveryTokenContributes ==
    opts.done => opts.options = DecodedAll(str)

\* C13 amended: the mapping has an entry for every token whose decoded
\* name is not empty, the last token of a name giving its value; a token
\* that begins with '=' contributes nothing.
C13_NamedTokensContribute ==
    opts.done => opts.options = DecodedNamed(str)

\* parseFirstForm has decoded a region in which a later token overwrote an
\* earlier one of the same name and a token beginning with '=' was skipped
C13_Witness ==
    /\ opts.done
    /\ Cardinality(TokenSpans(str)) >= 3
    /\ Cardinality(DOMAIN opts.options) = 1
    /\ \E sp \in TokenSpans(str) : str[sp[1]] = "="
    /\ \E sp \in TokenSpans(str) :
          /\ DecodedName(SubSeq(str, sp[1], sp[2])) \in DOMAIN opts.options
          /\ DecodedValue(SubSeq(str, sp[1], sp[2]))
                # opts.options[DecodedName(SubSeq(str, sp[1], sp[2]))]

\* C14: on a second-form line with a colon after the keyword, ScanString
\* succeeds and the options are those of the text between the keyword and
\* the first colon after it; the text after that colon changes nothing.
C14_SecondFormCutAtColon ==
    (res.err # "pending" /\ Occurrences(str) # {} /\ IsSecondForm(str)) =>
        LET after  == AfterKeyword(str)
            region == SubSeq(after, 1, FirstColon(after) - 1)
        IN  HasColon(after) =>
                /\ res.err = "none"
                /\ res.m.Options = DecodedNamed(region)

\* ScanString has succeeded on a second-form line whose closing colon is
\* followed by text that would decode to a further option
C14_Witness ==
    /\ res.err = "none"
    /\ Occurrences(str) # {} /\ IsSecondForm(str)
    /\ HasColon(AfterKeyword(str))
    /\ res.m.Options # EmptyMap
    /\ DecodedNamed(AfterKeyword(str)) # res.m.Options

\* C15: on a second-form line without a colon after the keyword, ScanString
\* succeeds with the matched program and no options.
C15_UnterminatedSecondFormEmpty ==
    (res.err # "pending" /\ Occurrences(str) # {} /\ IsSecondForm(str)
       /\ ~HasColon(AfterKeyword(str))) =>
        LET o == Leftmost(str)
        IN  /\ res.err = "none"
            /\ res.m.Options = EmptyMap
            /\ res.m.Program = SubSeq(str, o[2], o[3] - 1)

\* ScanString has succeeded on an unterminated second-form line whose text
\* after the keyword holds option-like tokens
C15_Witness ==
    /\ res.err = "none"
    /\ Occurrences(str) # {} /\ IsSecondForm(str)
    /\ ~HasColon(AfterKeyword(str))
    /\ DecodedNamed(AfterKeyword(str)) # EmptyMap

\* C16: a successful result carries the input line unchanged as RawLine,
\* and ScanString of that RawLine gives an equal result.
C16_RawLineRoundTrip ==
    /\ res.err = "none" => res.m.RawLine = str
    /\ res2.err # "pending" => res2 = res

\* the RawLine of a result with leading and trailing blanks has been parsed
\* again
C16_Witness ==
    /\ res2.err = "none"
    /\ str[1] \in BlankChars
    /\ str[Len(str)] \in BlankChars
    /\ res.m.Options # EmptyMap

\* C17: on success Program is the identifier of the leftmost occurrence of
\* blanks, identifier, colon; it is not empty and made of word characters;
\* the options are those of the text after that occurrence's colon.
C17_ProgramIsLeftmost ==
    res.err = "none" =>
        LET o == Leftmost(str)
        IN  /\ Occurrences(str) # {}
            /\ res.m.Program = SubSeq(str, o[2], o[3] - 1)
            /\ res.m.Program # <<>>
            /\ \A k \in 1..Len(res.m.Program) : res.m.Program[k] \in WordChars
            /\ findProgram(str).rest = SubSeq(str, o[3] + 1, Len(str))
            /\ res.m.Options = parseOptions(SubSeq(str, o[3] + 1, Len(str))).options

\* ScanString has succeeded on a line with a later occurrence whose
\* identifier differs from the program
C17_Witness ==
    /\ res.err = "none"
    /\ \E o \in Occurrences(str) : SubSeq(str, o[2], o[3] - 1) # res.m.Program

====
